---- MODULE Spec2Model ----
(***************************************************************************)
(* Model of the developer-sponsored USDC transfer demo:                    *)
(*   - the useTransfer hook (transferUSDC), one action per await,          *)
(*   - the ledger and the two external signers it talks to.                *)
(* Calls into @solana/web3.js are modelled by what the library does for    *)
(* the arguments the source passes (see the comments at each use).         *)
(***************************************************************************)
EXTENDS Integers, Sequences, FiniteSets, TLC

\* ------------------------------------------------------------------ bounds

\* The ledger's freshness token (recent blockhash) takes the values 1..MaxBlockhash.
MaxBlockhash == 2
\* Number of transferUSDC calls explored in one behaviour.
MaxAttempts == 1
\* Number of refreshBalances calls explored in one behaviour.
MaxRefreshes == 2
\* Number of status-reset timeouts pending or still to be set at one time.
MaxTimers == 2

\* ------------------------------------------------------- program constants

\* NEXT_PUBLIC_TRANSFER_AMOUNT default "0.01", in thousandths of a USDC.
TransferAmountMilli == 10
\* Math.floor(amount * 1_000_000): base units per thousandth of a USDC.
BaseUnitsPerMilli == 1000

\* --------------------------------------------------------------- constants

NullValue == "null"
UnknownError == "Unknown error"

\* The three participant addresses handed to transferUSDC.
Participants == {"userA", "userB", "dev"}

VARIABLES
  \* ---- ledger (devnet) ----
  ledgerUsdc,        \* User A's USDC on the ledger, in thousandths
  ataExists,         \* does User B's associated token account exist
  ledgerBlockhash,   \* the ledger's latest blockhash
  \* ---- useTransfer ----
  transferState,     \* {isTransferring, error, success}
  pc,                \* the await transferUSDC is suspended at
  transaction,       \* the transfer transaction (line 100)
  ataTransaction,    \* the recipient-account setup transaction (line 76)
  userSignature,     \* what sdk.signTransaction resolved with
  developerSignature,\* the JSON body of the sponsor signing response
  requests,          \* the payload of each signing request sent in this call
  submitted,         \* the wire transaction handed to sendRawTransaction
  trace,             \* the steps this call has executed, in order
  thrown,            \* the error the call rejected with
  result,            \* the value the call resolved with
  attempts,          \* number of transferUSDC calls so far
  caller,            \* who awaits the call: "ui" (handleTransferUSDC) or "direct"
  args,              \* the three addresses the call was given
  \* ---- useSolanaConnection / useMetaKeepSDK ----
  connection,        \* is the Connection set
  sdk,               \* is the MetaKeep SDK instance set
  userAWallet,       \* "" until getWallet answered
  userBWallet,
  devWallet,
  isInitializing,
  walletReply,       \* what sdk.getWallet() settled with
  \* ---- MetaKeepApp ----
  initPc,            \* the await initializeApp is suspended at
  isInitialized,
  hasInsufficientUSDC,
  status,            \* the status banner's message
  resetTimers,       \* pending setTimeout(() => setStatus(empty)) callbacks
  delayedRefresh,    \* pending setTimeout(() => refreshBalances(...), 2000) callbacks
  transactionInfo,   \* the transaction and the two signatures the page displays
  \* ---- useWalletBalances ----
  balances,          \* the USDC label of each wallet
  refreshes,         \* refreshBalances calls awaiting their Promise.all
  refreshCount,      \* number of refreshBalances calls so far
  \* ---- a second transferUSDC call, the byte codec, the balance routes ----
  other,             \* where a second, overlapping transferUSDC call stands
  codec,             \* one use of the byte codec: input, hex string, decoded bytes
  route,             \* one request to a balance route: address, RPC answer, response
  proxy,             \* one request to a MetaKeep proxy route: key, body, upstream, response
  secondInit         \* a second initializeWallets call made while the first is in progress

ledgerVars == <<ledgerUsdc, ataExists, ledgerBlockhash>>
hookVars == <<transferState, pc, transaction, ataTransaction, userSignature,
              developerSignature, requests, submitted, trace, thrown, result,
              attempts, caller, args>>
walletVars == <<connection, sdk, userAWallet, userBWallet, devWallet, isInitializing,
                walletReply>>
appVars == <<initPc, isInitialized, hasInsufficientUSDC>>
bannerVars == <<status, resetTimers, delayedRefresh>>
balanceVars == <<balances, refreshes, refreshCount>>
uiVars == <<walletVars, appVars, bannerVars, transactionInfo, balanceVars>>
sideVars == <<other, codec, route, proxy, secondInit>>
vars == <<ledgerVars, hookVars, uiVars, sideVars>>

\* ------------------------------------------------------------ transactions

\* The message of a transaction: everything except the signatures.
NoMessage == [instructions |-> <<>>, feePayer |-> "", recentBlockhash |-> 0]

NoSignature == [by |-> "", message |-> NoMessage]

\* What decoding yields for a string that is not the hex of the signer's bytes.
GarbageSignature == [by |-> "garbage", message |-> NoMessage]

\* new Transaction(): no instructions, no fee payer, no blockhash, no signatures.
NewTransaction == [instructions |-> <<>>, feePayer |-> "", recentBlockhash |-> 0,
                   signatures |-> [p \in Participants |-> NoSignature]]

\* getAssociatedTokenAddress(usdcMint, owner)
AssociatedTokenAddress(owner) == "ata:" \o owner

\* createAssociatedTokenAccountInstruction(payer, ata, owner, mint)
CreateATAInstruction(payer, ata, owner) ==
  [op |-> "createATA", payer |-> payer, source |-> "", destination |-> ata,
   owner |-> owner, amount |-> 0]

\* createTransferInstruction(source, destination, owner, amount)
CreateTransferInstruction(source, destination, owner, amount) ==
  [op |-> "transfer", payer |-> "", source |-> source, destination |-> destination,
   owner |-> owner, amount |-> amount]

\* Transaction.add(instruction)
AddInstruction(t, ins) == [t EXCEPT !.instructions = Append(@, ins)]

\* Transaction.serializeMessage(): the message bytes, signatures left out.
SerializeMessage(t) ==
  [instructions |-> t.instructions, feePayer |-> t.feePayer,
   recentBlockhash |-> t.recentBlockhash]

\* Transaction.addSignature(pubkey, signature): sets the slot of pubkey.
AddSignature(t, pubkey, sig) == [t EXCEPT !.signatures[pubkey] = sig]

\* The slots that carry a signature.
SignedSlots(t) == {p \in Participants : t.signatures[p] # NoSignature}

\* The account that must sign for one instruction.
InstructionSigner(ins) == IF ins.op = "createATA" THEN ins.payer ELSE ins.owner

\* Every address that must sign the transaction: fee payer and instruction signers.
RequiredSigners(t) ==
  (IF t.feePayer = "" THEN {} ELSE {t.feePayer})
    \cup {InstructionSigner(t.instructions[i]) : i \in DOMAIN t.instructions}

\* ------------------------------------------------------- errors and replies

\* A thrown value: an Error instance with a message, or a plain object with a status
\* (what the MetaKeep SDK rejects with, cf. useMetaKeepSDK's OPERATION_CANCELLED test).
NoError == [isError |-> FALSE, message |-> "", status |-> ""]
NewError(msg) == [isError |-> TRUE, message |-> msg, status |-> ""]
Rejection(st) == [isError |-> FALSE, message |-> "", status |-> st]

\* The user closed the signing dialog.
UserCancelled == Rejection("OPERATION_CANCELLED")
\* The signer could not answer for the moment.
TransientRejections == {Rejection("SERVICE_UNAVAILABLE"), NewError("Request timed out")}
SenderRejections == {UserCancelled} \cup TransientRejections

NetworkError == NewError("Failed to fetch")
InvalidPublicKey == NewError("Invalid public key input")
LedgerError == NewError("RPC request failed")

\* error instanceof Error ? error.message : "Unknown error"
ErrorMessage(e) == IF e.isError THEN e.message ELSE UnknownError

\* A signer's reply: the signature it made and whether the string carrying it is
\* the hex of those bytes.
NoReply == [present |-> FALSE, signature |-> NoSignature, wellFormed |-> FALSE]
SignatureReply(signer, message, wellFormed) ==
  [present |-> TRUE, signature |-> [by |-> signer, message |-> message],
   wellFormed |-> wellFormed]

\* Buffer.from(hexToUint8Array(reply.signature)): hexToUint8Array never throws; a
\* string that is not hex decodes to other bytes than the signer produced.
DecodeSignature(reply) ==
  IF reply.wellFormed THEN reply.signature ELSE GarbageSignature

\* The body of the /api/metakeep-sign response.
NoSponsorBody == [status |-> "", hasSignature |-> FALSE, reply |-> NoReply, message |-> ""]
SponsorBodies(message) ==
  {[status |-> st, hasSignature |-> TRUE,
    reply |-> SignatureReply("dev", message, wf), message |-> ""] :
      st \in {"SUCCESS", "FAILED"}, wf \in BOOLEAN}
  \cup {[status |-> "SUCCESS", hasSignature |-> FALSE, reply |-> NoReply, message |-> ""],
        [status |-> "FAILED", hasSignature |-> FALSE, reply |-> NoReply,
         message |-> "Signing rejected"]}

\* developerSignature.status !== "SUCCESS" || !developerSignature.signature  (negated)
SponsorSigningSucceededUnchecked(body) == body.hasSignature
SponsorSigningSucceeded(body) == body.status = "SUCCESS" /\ body.hasSignature

\* developerSignature.message || "Developer signing failed without a message."
SponsorFailureMessage(body) ==
  IF body.message # "" THEN body.message ELSE "Developer signing failed without a message."

\* ------------------------------------------------------- signing payloads

NoPayload == [kind |-> "none", message |-> NoMessage, signed |-> {}]
NoRequests == [setup |-> NoPayload, sender |-> NoPayload, sponsor |-> NoPayload]

\* sdk.signTransaction(transaction, memo): the SDK is handed the transaction object.
SenderRequestPayload(t) ==
  [kind |-> "transaction", message |-> SerializeMessage(t), signed |-> SignedSlots(t)]

\* { transactionObject: { serializedTransactionMessage: hex(serializeMessage()) } }
SponsorRequestPayloadWhole(t) ==
  [kind |-> "transaction", message |-> SerializeMessage(t), signed |-> SignedSlots(t)]
SponsorRequestPayloadRefreshed(t) ==
  [kind |-> "message",
   message |-> [SerializeMessage(t) EXCEPT !.recentBlockhash = ledgerBlockhash],
   signed |-> {}]
SponsorRequestPayload(t) ==
  [kind |-> "message", message |-> SerializeMessage(t), signed |-> {}]

\* { transaction: ataTransaction.serialize({requireAllSignatures: false}), walletId }
SetupRequestPayload(t) ==
  [kind |-> "transaction", message |-> SerializeMessage(t), signed |-> SignedSlots(t)]

\* transaction.serialize() with the library's defaults (requireAllSignatures and
\* verifySignatures both true): it throws unless every required signer's slot holds
\* a signature of this message by that signer.
SerializeAcceptsUnverified(t) == TRUE
SerializeAccepts(t) ==
  \A s \in RequiredSigners(t) :
    t.signatures[s].by = s /\ t.signatures[s].message = SerializeMessage(t)

\* The identifier sendRawTransaction resolves with: the fee payer's signature.
TransactionId(t) == t.signatures[t.feePayer]

NoResult == [signature |-> NoSignature, success |-> FALSE,
             userSignature |-> NoReply, developerSignature |-> NoSponsorBody]

\* --------------------------------------------------------------- the ledger

\* Balances the sender may start with, in thousandths of a USDC.
InitialLedgerUsdc == {4, 5, 20}

\* A new block: the latest blockhash moves on.
LedgerTick ==
  /\ UNCHANGED sideVars
  /\ ledgerBlockhash < MaxBlockhash
  /\ ledgerBlockhash' = ledgerBlockhash + 1
  /\ UNCHANGED <<ledgerUsdc, ataExists, hookVars, uiVars>>

\* Can the ledger execute the submitted transfer.
LedgerExecutes(t) ==
  /\ ataExists
  /\ \A i \in DOMAIN t.instructions :
       t.instructions[i].op = "transfer" =>
         t.instructions[i].amount <= ledgerUsdc * BaseUnitsPerMilli

\* ------------------------------------------- handleTransferUSDC, after the await

\* catch (error) { setStatus("Transfer failed: ..."); setTimeout(reset, 5000) }
TransferFailedStatus(e) == "Transfer failed: " \o ErrorMessage(e)

AfterTransferRejected(e) ==
  IF caller = "ui"
  THEN /\ status' = TransferFailedStatus(e)
       /\ resetTimers' = resetTimers + 1
       /\ UNCHANGED <<delayedRefresh, transactionInfo>>
  ELSE UNCHANGED <<bannerVars, transactionInfo>>

\* useState(null) for transactionInfo, userSignature and developerSignature.
NoTransactionInfo ==
  [signature |-> NoSignature, userSignature |-> NoReply,
   developerSignature |-> NoSponsorBody]

\* if (result.success) { setStatus(...); setTransactionInfo(...); setUserSignature(...);
\* setDeveloperSignature(...); setTimeout(refresh, 2000); setTimeout(reset, 5000) }
AfterTransferResolved ==
  IF caller = "ui"
  THEN /\ status' = "Transfer successful!"
       /\ resetTimers' = resetTimers + 1
       /\ delayedRefresh' = delayedRefresh + 1
       /\ transactionInfo' = [signature |-> TransactionId(submitted),
                               userSignature |-> userSignature,
                               developerSignature |-> developerSignature]
  ELSE UNCHANGED <<bannerVars, transactionInfo>>

\* ---------------------------------------------------------------- addresses

\* /^[1-9A-HJ-NP-Za-km-z]{32,44}$/
MinAddressLength == 32
MaxAddressLength == 44

\* An address string, by what the checks look at: the length of the text that trim()
\* leaves and whether all of it is in the Base-58 alphabet, whether the string has
\* white space around that text, and whether the text decodes to a 32-byte key.
\* A Base-58 text that decodes to 32 bytes has between 32 and 44 characters.
AddressSamples ==
  {a \in [length : {0, MinAddressLength - 1, MinAddressLength, MaxAddressLength,
                    MaxAddressLength + 1},
          base58 : BOOLEAN, padded : BOOLEAN, key : BOOLEAN] :
     a.key => (a.base58 /\ a.length >= MinAddressLength
                        /\ a.length <= MaxAddressLength)}

\* The addresses the wallets and the developer-wallet route hand out.
WellFormedAddress ==
  [length |-> MaxAddressLength, base58 |-> TRUE, padded |-> FALSE, key |-> TRUE]

\* A shape check that tests the alphabet and not the length.
ShapeCheckAlphabetOnly(a) == a.base58

\* /^[1-9A-HJ-NP-Za-km-z]{32,44}$/.test(address.trim())
ShapeCheck(a) ==
  a.base58 /\ a.length >= MinAddressLength /\ a.length <= MaxAddressLength

\* new PublicKey(address): throws unless the whole string is the Base-58 of 32 bytes.
PublicKeyAccepts(a) == a.key /\ ~a.padded

\* ------------------------------------------------------------ transferUSDC

\* A catch that adds the message to the state it finds, leaving the other fields.
RejectKeepingFlags(e, tr) ==
  /\ transferState' = [transferState EXCEPT !.error = ErrorMessage(e)]
  /\ thrown' = e
  /\ pc' = "failed"
  /\ trace' = tr
  /\ AfterTransferRejected(e)
  /\ UNCHANGED <<result, attempts, caller, args>>

\* A catch block that records the failure but does not rethrow it.
RejectSwallowing(e, tr) ==
  /\ transferState' = [isTransferring |-> FALSE, error |-> ErrorMessage(e),
                       success |-> FALSE]
  /\ thrown' = NoError
  /\ pc' = "failed"
  /\ trace' = tr
  /\ AfterTransferRejected(e)
  /\ UNCHANGED <<result, attempts, caller, args>>

\* catch (error) { setTransferState({false, message, false}); throw error }
Reject(e, tr) ==
  /\ transferState' = [isTransferring |-> FALSE, error |-> ErrorMessage(e),
                       success |-> FALSE]
  /\ thrown' = e
  /\ pc' = "failed"
  /\ trace' = tr
  /\ AfterTransferRejected(e)
  /\ UNCHANGED <<result, attempts, caller, args>>

\* Lines 58-68: setTransferState(transferring), make the public keys (which throws
\* into the catch for a string that is no key), derive the token accounts, ask the
\* ledger for the recipient's token account.
BeginTransfer(who, addresses) ==
  /\ args' = addresses
  /\ IF \A p \in Participants : PublicKeyAccepts(addresses[p])
     THEN /\ transferState' = [isTransferring |-> TRUE, error |-> NullValue,
                               success |-> FALSE]
          /\ pc' = "getAccountInfo"
          /\ trace' = <<"getAccountInfo">>
          /\ thrown' = NoError
     ELSE /\ transferState' = [isTransferring |-> FALSE,
                               error |-> ErrorMessage(InvalidPublicKey),
                               success |-> FALSE]
          /\ pc' = "failed"
          /\ trace' = <<>>
          /\ thrown' = InvalidPublicKey
  /\ transaction' = NewTransaction
  /\ ataTransaction' = NewTransaction
  /\ userSignature' = NoReply
  /\ developerSignature' = NoSponsorBody
  /\ requests' = NoRequests
  /\ submitted' = NewTransaction
  /\ result' = NoResult
  /\ attempts' = attempts + 1
  /\ caller' = who

\* transferUSDC called by some other caller than the page, with addresses of which
\* one may be any string. (A run that tries a route request makes no such call.)
DirectCall ==
  /\ UNCHANGED sideVars
  /\ route.pc = "idle"
  /\ pc \in {"idle", "done", "failed"}
  /\ attempts < MaxAttempts
  /\ \E p \in Participants, a \in AddressSamples :
       BeginTransfer("direct", [q \in Participants |->
                                  IF q = p THEN a ELSE WellFormedAddress])
  /\ UNCHANGED <<ledgerVars, uiVars>>

\* What line 68-69 makes of the ledger's answer: getAccountInfo rejects when the RPC
\* fails and resolves with null for an account that does not exist.
AccountLookupConflated(rpcOk, exists) ==
  IF rpcOk /\ exists THEN "present" ELSE "absent"
AccountLookup(rpcOk, exists) ==
  IF ~rpcOk THEN "throw" ELSE IF exists THEN "present" ELSE "absent"

\* Lines 92-101: the transfer instruction, new Transaction().add(it), getLatestBlockhash.
StartBuild(tr) ==
  /\ transaction' = AddInstruction(NewTransaction,
        CreateTransferInstruction(AssociatedTokenAddress("userA"),
                                  AssociatedTokenAddress("userB"), "userA",
                                  TransferAmountMilli * BaseUnitsPerMilli))
  /\ trace' = tr \o <<"build", "getLatestBlockhash">>
  /\ pc' = "getBlockhash"

\* Lines 68-90 (and on to 101 when no setup is needed). The trace notes an RPC
\* failure as "ledgerUnavailable".
\* ataTransaction.serialize({requireAllSignatures: false}) is library code given a
\* transaction without recentBlockhash and fee payer: both of its outcomes, throwing
\* and yielding bytes, are admitted.
AccountInfoResolves ==
  /\ UNCHANGED sideVars
  /\ pc = "getAccountInfo"
  /\ \E rpcOk \in BOOLEAN :
       LET found == AccountLookup(rpcOk, ataExists)
           setup == AddInstruction(NewTransaction,
                      CreateATAInstruction("dev", AssociatedTokenAddress("userB"), "userB"))
           seen == IF rpcOk THEN trace ELSE trace \o <<"ledgerUnavailable">>
       IN  CASE found = "throw" ->
                  /\ Reject(LedgerError, seen)
                  /\ UNCHANGED <<transaction, ataTransaction, requests>>
             [] found = "present" ->
                  /\ StartBuild(seen)
                  /\ UNCHANGED <<ataTransaction, requests, transferState, thrown,
                                 result, attempts, caller, args, bannerVars, transactionInfo>>
             [] found = "absent" ->
                  /\ ataTransaction' = setup
                  /\ UNCHANGED transaction
                  /\ \E serialized \in BOOLEAN :
                       IF serialized
                       THEN /\ requests' = [requests EXCEPT !.setup = SetupRequestPayload(setup)]
                            /\ trace' = seen \o <<"buildSetup", "requestSetupSignature">>
                            /\ pc' = "ataSign"
                            /\ UNCHANGED <<transferState, thrown, result, attempts,
                                           caller, args, bannerVars, transactionInfo>>
                       ELSE /\ Reject(NewError("Transaction recentBlockhash required"),
                                      seen \o <<"buildSetup">>)
                            /\ UNCHANGED requests
  /\ UNCHANGED <<userSignature, developerSignature, submitted>>
  /\ UNCHANGED <<ledgerVars, walletVars, appVars, balanceVars>>

\* Lines 87-101: the answer to the setup signing request.
SetupSignResolves ==
  /\ UNCHANGED sideVars
  /\ pc = "ataSign"
  /\ \E reply \in {"rejects", "notOk", "ok"} :
       CASE reply = "rejects" ->
              /\ Reject(NetworkError, trace \o <<"setupSignFailed">>)
              /\ UNCHANGED transaction
         [] reply = "notOk" ->
              /\ Reject(NewError("Failed to create User B USDC token account."),
                        trace \o <<"setupSignFailed">>)
              /\ UNCHANGED transaction
         [] reply = "ok" ->
              /\ StartBuild(trace)
              /\ UNCHANGED <<transferState, thrown, result, attempts, caller, args, bannerVars, transactionInfo>>
  /\ UNCHANGED <<ataTransaction, userSignature, developerSignature, requests, submitted>>
  /\ UNCHANGED <<ledgerVars, walletVars, appVars, balanceVars>>

\* Lines 101-108: blockhash and fee payer are set, the sender's signer is called.
BlockhashResolves ==
  /\ UNCHANGED sideVars
  /\ pc = "getBlockhash"
  /\ \E rpcOk \in BOOLEAN :
       IF rpcOk
       THEN LET built == [transaction EXCEPT !.recentBlockhash = ledgerBlockhash,
                                             !.feePayer = "dev"]
            IN  /\ transaction' = built
                /\ requests' = [requests EXCEPT !.sender = SenderRequestPayload(built)]
                /\ trace' = trace \o <<"senderSign">>
                /\ pc' = "senderSign"
                /\ UNCHANGED <<transferState, thrown, result, attempts, caller, args, bannerVars, transactionInfo>>
       ELSE /\ Reject(LedgerError, trace \o <<"blockhashFailed">>)
            /\ UNCHANGED <<transaction, requests>>
  /\ UNCHANGED <<ataTransaction, userSignature, developerSignature, submitted>>
  /\ UNCHANGED <<ledgerVars, walletVars, appVars, balanceVars>>
\* The replies sdk.signTransaction may resolve with for the payload it was handed.
SenderReplies == {NoReply} \cup
  {SignatureReply("userA", requests.sender.message, wf) : wf \in BOOLEAN}

\* Lines 109-128 for a reply the signer resolved with.
SenderReplied(reply) ==
  IF ~reply.present
  THEN /\ Reject(NewError("User signature was not provided by MetaKeep."),
                 trace \o <<"senderSignFailed">>)
       /\ UNCHANGED <<transaction, userSignature, requests>>
  ELSE LET signed == AddSignature(transaction, "userA", DecodeSignature(reply))
       IN  /\ userSignature' = reply
           /\ transaction' = signed
           /\ requests' = [requests EXCEPT !.sponsor = SponsorRequestPayload(signed)]
           /\ trace' = trace \o <<"attachSender", "sponsorSign">>
           /\ pc' = "sponsorSign"
           /\ UNCHANGED <<transferState, thrown, result, attempts, caller, args, bannerVars, transactionInfo>>

\* As SenderSignResolves, but a missing signature is asked for again.
SenderSignResolvesRetrying ==
  /\ UNCHANGED sideVars
  /\ pc = "senderSign"
  /\ \/ \E e \in SenderRejections :
          /\ Reject(e, trace \o <<"senderSignFailed">>)
          /\ UNCHANGED <<transaction, userSignature, requests>>
     \/ \E reply \in SenderReplies :
          IF reply.present
          THEN SenderReplied(reply)
          ELSE /\ trace' = trace \o <<"senderSign">>
               /\ UNCHANGED <<transaction, userSignature, requests, pc, transferState,
                              thrown, result, attempts, caller, args, bannerVars, transactionInfo>>
  /\ UNCHANGED <<ataTransaction, developerSignature, submitted>>
  /\ UNCHANGED <<ledgerVars, walletVars, appVars, balanceVars>>

\* Lines 105-128: the sender's signer answers; its signature is attached and the
\* message is sent to the sponsor's signer.
SenderSignResolves ==
  /\ UNCHANGED sideVars
  /\ pc = "senderSign"
  /\ \/ \E e \in SenderRejections :
          /\ Reject(e, trace \o <<"senderSignFailed">>)
          /\ UNCHANGED <<transaction, userSignature, requests>>
     \/ \E reply \in SenderReplies : SenderReplied(reply)
  /\ UNCHANGED <<ataTransaction, developerSignature, submitted>>
  /\ UNCHANGED <<ledgerVars, walletVars, appVars, balanceVars>>

\* Lines 129-146: the sponsor's signer answers; its signature is attached and the
\* serialized transaction is handed to sendRawTransaction.
SponsorSignResolves ==
  /\ UNCHANGED sideVars
  /\ pc = "sponsorSign"
  /\ \/ /\ Reject(NetworkError, trace \o <<"sponsorSignFailed">>)
        /\ UNCHANGED <<transaction, developerSignature, submitted>>
     \/ /\ Reject(NewError("Developer signing request failed."),
                  trace \o <<"sponsorSignFailed">>)
        /\ UNCHANGED <<transaction, developerSignature, submitted>>
     \/ \E body \in SponsorBodies(requests.sponsor.message) :
          /\ developerSignature' = body
          /\ IF ~SponsorSigningSucceeded(body)
             THEN /\ Reject(NewError(SponsorFailureMessage(body)),
                             trace \o <<"sponsorSignFailed">>)
                  /\ UNCHANGED <<transaction, submitted>>
             ELSE LET merged == AddSignature(transaction, "dev", DecodeSignature(body.reply))
                  IN  /\ transaction' = merged
                      /\ IF SerializeAccepts(merged)
                         THEN /\ submitted' = merged
                              /\ trace' = trace \o <<"merge", "submit">>
                              /\ pc' = "send"
                              /\ UNCHANGED <<transferState, thrown, result, attempts,
                                             caller, args, bannerVars, transactionInfo>>
                         ELSE /\ Reject(NewError("Signature verification failed"),
                                        trace \o <<"merge">>)
                              /\ UNCHANGED submitted
  /\ UNCHANGED <<ataTransaction, userSignature, requests>>
  /\ UNCHANGED <<ledgerVars, walletVars, appVars, balanceVars>>

\* A submission that is sent again after the ledger refused it.
SendResolvesResubmitting ==
  /\ UNCHANGED sideVars
  /\ pc = "send"
  /\ \/ /\ trace' = trace \o <<"submitRejected", "submit">>
        /\ Len(trace) < 16
        /\ UNCHANGED <<pc, transferState, thrown, result, attempts, caller, args, bannerVars, transactionInfo>>
     \/ /\ trace' = trace \o <<"confirm">>
        /\ pc' = "confirm"
        /\ UNCHANGED <<transferState, thrown, result, attempts, caller, args, bannerVars, transactionInfo>>
  /\ UNCHANGED <<transaction, ataTransaction, userSignature, developerSignature,
                 requests, submitted>>
  /\ UNCHANGED <<ledgerVars, walletVars, appVars, balanceVars>>

\* Lines 143-147: sendRawTransaction answers; confirmTransaction is called.
SendResolves ==
  /\ UNCHANGED sideVars
  /\ pc = "send"
  /\ \/ Reject(LedgerError, trace \o <<"submitRejected">>)
     \/ /\ trace' = trace \o <<"confirm">>
        /\ pc' = "confirm"
        /\ UNCHANGED <<transferState, thrown, result, attempts, caller, args, bannerVars, transactionInfo>>
  /\ UNCHANGED <<transaction, ataTransaction, userSignature, developerSignature,
                 requests, submitted>>
  /\ UNCHANGED <<ledgerVars, walletVars, appVars, balanceVars>>

\* if (confirmation.value.err)
ConfirmationHasErrorIgnored(outcome) == FALSE
ConfirmationHasError(outcome) == outcome = "err"

\* Lines 147-158: the confirmation answers: it rejects, or reports an error, or
\* reports the transaction executed (the ledger then holds the moved amount).
ConfirmResolves ==
  /\ UNCHANGED sideVars
  /\ pc = "confirm"
  /\ \E outcome \in {"rejects", "err", "ok"} :
       /\ outcome = "ok" => LedgerExecutes(submitted)
       /\ ledgerUsdc' = IF outcome = "ok" THEN ledgerUsdc - TransferAmountMilli
                        ELSE ledgerUsdc
       /\ LET seen == IF outcome = "ok" THEN trace
                      ELSE trace \o <<"confirmRejected">>
          IN  IF outcome = "rejects"
              THEN Reject(LedgerError, seen)
              ELSE IF ConfirmationHasError(outcome)
              THEN Reject(NewError("Transaction failed: rejected"), seen)
              ELSE /\ transferState' = [isTransferring |-> FALSE, error |-> NullValue,
                                        success |-> TRUE]
                   /\ result' = [signature |-> TransactionId(submitted),
                                 success |-> TRUE,
                                 userSignature |-> userSignature,
                                 developerSignature |-> developerSignature]
                   /\ pc' = "done"
                   /\ trace' = seen \o <<"confirmed">>
                   /\ AfterTransferResolved
                   /\ UNCHANGED <<thrown, attempts, caller, args>>
  /\ UNCHANGED <<transaction, ataTransaction, userSignature, developerSignature,
                 requests, submitted>>
  /\ UNCHANGED <<ataExists, ledgerBlockhash, walletVars, appVars, balanceVars>>

TransferStep ==
  \/ AccountInfoResolves
  \/ SetupSignResolves
  \/ BlockhashResolves
  \/ SenderSignResolves
  \/ SponsorSignResolves
  \/ SendResolves
  \/ ConfirmResolves


\* -------------------------------------------------- /api/usdc-balance, labels

\* The values x.xx5 (in thousandths) whose double lies above the tie, so that
\* toFixed(2) rounds them up; the others of that form lie below it.
TiesRoundedUp == {5, 25, 35, 55, 65, 85, 95}

\* totalBalance.toFixed(2) for a balance given in thousandths: the cents shown.
ToFixed2(milli) ==
  IF milli % 10 < 5 THEN milli \div 10
  ELSE IF milli % 10 > 5 THEN milli \div 10 + 1
  ELSE IF milli \in TiesRoundedUp THEN milli \div 10 + 1 ELSE milli \div 10

\* What the ledger holds for an owner, in thousandths of a USDC.
UsdcOnLedger(owner) == IF owner = "userA" THEN ledgerUsdc ELSE 0

\* The labels of balances.<wallet>.usdc.
LoadingBalance == [kind |-> "loading", cents |-> 0]
ErrorBalance == [kind |-> "error", cents |-> 0]
\* fetchUSDCBalance over the route: `${totalBalance.toFixed(2)} USDC`
UsdcLabel(owner) == [kind |-> "value", cents |-> ToFixed2(UsdcOnLedger(owner))]

\* A comparison that lets a label pass when it does not parse to a number.
InsufficientUnparsedPasses(label) ==
  IF label.kind = "value" THEN label.cents * 10 < TransferAmountMilli ELSE FALSE

\* parseFloat(label.replace(" USDC", "")) < configuredTransferAmount, and true when
\* the label does not parse to a finite number ("Error").
Insufficient(label) ==
  IF label.kind = "value" THEN label.cents * 10 < TransferAmountMilli ELSE TRUE

\* The effect on balances.userA?.usdc (lines 145-162): it runs when the label
\* changed, returns early for no label and for "Loading...".
EffectRuns(old, new) == new # old /\ new.kind \notin {"null", "loading"}

InsufficientWarning == "User A has insufficient USDC on devnet. Please fund this wallet to replay the sponsorship flow."

\* setBalances(next) followed by the balance effect; `banner` is the status the
\* calling handler sets in the same turn, before the effect runs.
SetBalances(next, banner) ==
  LET old == balances["userA"]
      new == next["userA"]
  IN  /\ balances' = next
      /\ IF EffectRuns(old, new)
         THEN /\ hasInsufficientUSDC' = Insufficient(new)
              /\ status' = IF Insufficient(new) /\ new.kind # "error"
                           THEN InsufficientWarning ELSE banner
         ELSE /\ UNCHANGED hasInsufficientUSDC
              /\ status' = banner

\* ----------------------------------------------------------- refreshBalances

PendingHandlers ==
  (IF caller = "ui" /\ pc \notin {"idle", "done", "failed"} THEN 1 ELSE 0)
    + Cardinality({r \in refreshes : r.origin = "button"})

\* Lines 66-91 of useWalletBalances: the labels become "Loading..." and the six
\* lookups are issued; the record keeps what the USDC lookups will answer.
StartRefresh(origin, banner) ==
  /\ refreshCount < MaxRefreshes
  /\ refreshCount' = refreshCount + 1
  /\ refreshes' = refreshes \cup
       {[id |-> refreshCount + 1, origin |-> origin,
         labels |-> [p \in Participants |-> UsdcLabel(p)]]}
  /\ SetBalances([p \in Participants |-> LoadingBalance], banner)

\* The six lookups of one refresh (lines 84-91): SOL and USDC for each wallet.
Lookups == [asset : {"sol", "usdc"}, owner : Participants]

\* How Promise.all settles: every lookup answered, or the first lookup to fail.
JoinOutcomes ==
  {[failed |-> FALSE, asset |-> "", owner |-> ""]}
    \cup {[failed |-> TRUE, asset |-> l.asset, owner |-> l.owner] : l \in Lookups}

\* A catch that marks only the wallet whose lookup failed.
LabelsAfterPartial(labels, outcome) ==
  IF ~outcome.failed THEN labels
  ELSE [p \in Participants |-> IF p = outcome.owner THEN ErrorBalance ELSE labels[p]]

\* setBalances of lines 92-96, or of the catch (lines 97-102): "Error" in every entry.
LabelsAfter(labels, outcome) ==
  IF ~outcome.failed THEN labels ELSE [p \in Participants |-> ErrorBalance]

RefreshFailedBanner == "Failed to refresh balances"

\* Lines 84-104: Promise.all settles; the catch rethrows (line 103) and the handler that
\* awaited the call goes on (handleRefreshBalances, lines 198-210). The outcomes that
\* store the same labels are one step.
RefreshCompletes ==
  \E r \in refreshes :
  \E settled \in {[labels |-> LabelsAfter(r.labels, outcome), failed |-> outcome.failed] :
                    outcome \in JoinOutcomes} :
    /\ UNCHANGED sideVars
    /\ UNCHANGED transactionInfo
    /\ refreshes' = refreshes \ {r}
    /\ LET banner == IF r.origin # "button" THEN status
                     ELSE IF settled.failed THEN RefreshFailedBanner
                     ELSE "Balances refreshed successfully!"
       IN  SetBalances(settled.labels, banner)
    /\ resetTimers' = IF r.origin = "button" THEN resetTimers + 1 ELSE resetTimers
    /\ UNCHANGED <<refreshCount, delayedRefresh, initPc, isInitialized>>
    /\ UNCHANGED <<ledgerVars, hookVars, walletVars>>

\* ------------------------------------------------------------- initializeApp

\* catch of initializeApp (lines 175-183).
InitFailed ==
  /\ status' = "Initialization failed"
  /\ isInitialized' = FALSE
  /\ initPc' = "failed"

\* The mount effect: initializeApp up to `await solanaConnection.getVersion()`.
Mount ==
  /\ UNCHANGED sideVars
  /\ UNCHANGED transactionInfo
  /\ initPc = "unmounted"
  /\ \E web3Loaded \in BOOLEAN :
       IF web3Loaded
       THEN /\ status' = "Initializing MetaKeep SDK and Solana connection..."
            /\ initPc' = "getVersion"
            /\ UNCHANGED isInitialized
       ELSE InitFailed
  /\ UNCHANGED <<hasInsufficientUSDC, resetTimers, delayedRefresh>>
  /\ UNCHANGED <<ledgerVars, hookVars, walletVars, balanceVars>>

\* getVersion answers; initializeWallets runs up to the developer-wallet fetch.
ConnectionResolves ==
  /\ UNCHANGED sideVars
  /\ UNCHANGED transactionInfo
  /\ initPc = "getVersion"
  /\ \E outcome \in {"rejects", "noMetaKeep", "ok"} :
       CASE outcome = "rejects" ->
              /\ InitFailed
              /\ UNCHANGED <<connection, sdk, userBWallet, isInitializing>>
         [] outcome = "noMetaKeep" ->
              /\ connection' = TRUE
              /\ InitFailed
              /\ UNCHANGED <<sdk, userBWallet, isInitializing>>
         [] outcome = "ok" ->
              /\ connection' = TRUE
              /\ isInitializing' = TRUE
              /\ sdk' = TRUE
              /\ userBWallet' = "userB"
              /\ initPc' = "devWallet"
              /\ UNCHANGED <<status, isInitialized>>
  /\ UNCHANGED <<userAWallet, devWallet, walletReply, hasInsufficientUSDC, resetTimers,
                 delayedRefresh>>
  /\ UNCHANGED <<ledgerVars, hookVars, balanceVars>>

\* /api/developer-wallet answers (lines 95-106 of useMetaKeepSDK).
DevWalletResolves ==
  /\ UNCHANGED sideVars
  /\ UNCHANGED transactionInfo
  /\ initPc = "devWallet"
  /\ \E ok \in BOOLEAN :
       IF ok
       THEN /\ devWallet' = "dev"
            /\ initPc' = "getWallet"
            /\ UNCHANGED <<isInitializing, status, isInitialized>>
       ELSE /\ isInitializing' = FALSE
            /\ InitFailed
            /\ UNCHANGED devWallet
  /\ UNCHANGED <<connection, sdk, userAWallet, userBWallet, walletReply,
                 hasInsufficientUSDC, resetTimers, delayedRefresh>>
  /\ UNCHANGED <<ledgerVars, hookVars, balanceVars>>

\* What sdk.getWallet() settles with: a wallet, a reply without one, or a rejection.
NoWalletReply == [kind |-> "none", error |-> NoError]
GetWalletReplies ==
  {[kind |-> k, error |-> NoError] : k \in {"wallet", "noWallet"}}
    \cup {[kind |-> "rejected", error |-> e] : e \in SenderRejections}

\* A test that takes every rejection carrying a status for a cancellation.
IsCancellationAnyStatus(error) == error.status # ""

\* error?.status !== "OPERATION_CANCELLED" (lines 110-114 of useMetaKeepSDK), negated.
IsCancellation(error) == error.status = "OPERATION_CANCELLED"

\* sdk.getWallet() answers (lines 106-117), initializeApp finishes (173-174) and the
\* refresh effect (138-142) runs when all three wallets are set.
GetWalletResolves ==
  /\ UNCHANGED sideVars
  /\ UNCHANGED transactionInfo
  /\ initPc = "getWallet"
  /\ isInitializing' = FALSE
  /\ \E reply \in GetWalletReplies :
       /\ walletReply' = reply
       /\ CASE reply.kind = "rejected" /\ ~IsCancellation(reply.error) ->
                 /\ InitFailed
                 /\ UNCHANGED <<userAWallet, hasInsufficientUSDC, balanceVars>>
            [] reply.kind = "wallet" ->
                 /\ userAWallet' = "userA"
                 /\ isInitialized' = TRUE
                 /\ initPc' = "done"
                 /\ StartRefresh("effect", "")
            [] OTHER ->
                 /\ isInitialized' = TRUE
                 /\ initPc' = "done"
                 /\ UNCHANGED userAWallet
                 /\ IF userAWallet # ""
                    THEN StartRefresh("effect", "")
                    ELSE /\ status' = ""
                         /\ UNCHANGED <<hasInsufficientUSDC, balanceVars>>
  /\ UNCHANGED <<connection, sdk, userBWallet, devWallet, resetTimers, delayedRefresh>>
  /\ UNCHANGED <<ledgerVars, hookVars>>

\* ------------------------------------------- a second initializeWallets call

\* A second call of the hook's initializeWallets, made while the first one is awaiting
\* the developer wallet or getWallet; `fetches` counts its /api/developer-wallet requests.
NoSecondInit == [pc |-> "idle", fetches |-> 0]

\* Lines 78-90: the flag is set and never read; the SDK is made, the fetch is issued.
SecondInitBegins ==
  /\ secondInit.pc = "idle"
  /\ initPc \in {"devWallet", "getWallet"}
  /\ isInitializing' = TRUE
  /\ sdk' = TRUE
  /\ userBWallet' = "userB"
  /\ secondInit' = [pc |-> "devWallet", fetches |-> secondInit.fetches + 1]
  /\ UNCHANGED <<connection, userAWallet, devWallet, walletReply>>
  /\ UNCHANGED <<ledgerVars, hookVars, appVars, bannerVars, transactionInfo, balanceVars>>
  /\ UNCHANGED <<other, codec, route, proxy>>

\* Lines 91-103 for the second call.
SecondDevWalletResolves ==
  /\ secondInit.pc = "devWallet"
  /\ \E ok \in BOOLEAN :
       IF ok
       THEN /\ devWallet' = "dev"
            /\ secondInit' = [secondInit EXCEPT !.pc = "getWallet"]
            /\ UNCHANGED isInitializing
       ELSE /\ isInitializing' = FALSE
            /\ secondInit' = [secondInit EXCEPT !.pc = "failed"]
            /\ UNCHANGED devWallet
  /\ UNCHANGED <<connection, sdk, userAWallet, userBWallet, walletReply>>
  /\ UNCHANGED <<ledgerVars, hookVars, appVars, bannerVars, transactionInfo, balanceVars>>
  /\ UNCHANGED <<other, codec, route, proxy>>

\* Lines 105-117 for the second call; the refresh effect (138-142) runs when the sender's
\* address is set on an initialized page.
SecondGetWalletResolves ==
  /\ secondInit.pc = "getWallet"
  /\ isInitializing' = FALSE
  /\ \E reply \in GetWalletReplies :
       CASE reply.kind = "rejected" /\ ~IsCancellation(reply.error) ->
              /\ secondInit' = [secondInit EXCEPT !.pc = "failed"]
              /\ UNCHANGED <<userAWallet, hasInsufficientUSDC, status, balanceVars>>
         [] reply.kind = "wallet" ->
              /\ secondInit' = [secondInit EXCEPT !.pc = "done"]
              /\ userAWallet' = "userA"
              /\ IF isInitialized /\ userAWallet = ""
                 THEN StartRefresh("effect", status)
                 ELSE UNCHANGED <<hasInsufficientUSDC, status, balanceVars>>
         [] OTHER ->
              /\ secondInit' = [secondInit EXCEPT !.pc = "done"]
              /\ UNCHANGED <<userAWallet, hasInsufficientUSDC, status, balanceVars>>
  /\ UNCHANGED <<connection, sdk, userBWallet, devWallet, walletReply>>
  /\ UNCHANGED <<initPc, isInitialized, resetTimers, delayedRefresh, transactionInfo>>
  /\ UNCHANGED <<ledgerVars, hookVars, other, codec, route, proxy>>

\* ------------------------------------------------------ buttons and timers

WalletsReady == userAWallet # "" /\ userBWallet # "" /\ devWallet # ""

\* A button that stays enabled while a transfer is running.
TransferButtonEnabledWhileTransferring == ~isInitializing /\ ~hasInsufficientUSDC

\* ActionButtons: disabled={disabled || isTransferring || hasInsufficientUSDC}
TransferButtonEnabled ==
  ~isInitializing /\ ~transferState.isTransferring /\ ~hasInsufficientUSDC

\* A check that does not look at the sender's address.
DetailsMissingSenderUnchecked ==
  ~(connection /\ sdk /\ userBWallet # "" /\ devWallet # "")

\* !connection || !sdk || !userAWallet || !userBWallet || !devWallet (line 216)
DetailsMissing == ~(connection /\ sdk /\ WalletsReady)

\* The address string a wallet state holds: empty until the wallet is set.
AddressOf(wallet) ==
  IF wallet = "" THEN [length |-> 0, base58 |-> TRUE, padded |-> FALSE, key |-> FALSE]
  ELSE WellFormedAddress

\* handleTransferUSDC up to the await of transferUSDC (lines 214-244). A click while an
\* earlier call is still suspended starts a second, overlapping call.
ClickTransfer ==
  /\ UNCHANGED <<codec, route, proxy, secondInit>>
  /\ UNCHANGED transactionInfo
  /\ TransferButtonEnabled
  /\ IF DetailsMissing
     THEN /\ status' = "Missing wallet or connection details. Please initialize the experience again."
          /\ UNCHANGED <<hookVars, other>>
     ELSE IF hasInsufficientUSDC
     THEN /\ status' = "User A has insufficient USDC on devnet. Please fund this wallet to continue."
          /\ UNCHANGED <<hookVars, other>>
     ELSE IF pc \notin {"idle", "done", "failed"}
     THEN /\ other = "idle"
          /\ other' = "running"
          /\ status' = "Starting USDC transfer..."
          /\ transferState' = [isTransferring |-> TRUE, error |-> NullValue,
                               success |-> FALSE]
          /\ UNCHANGED <<pc, transaction, ataTransaction, userSignature,
                         developerSignature, requests, submitted, trace, thrown, result,
                         attempts, caller, args>>
     ELSE /\ attempts < MaxAttempts
          /\ resetTimers + PendingHandlers < MaxTimers
          /\ status' = "Starting USDC transfer..."
          /\ BeginTransfer("ui", [userA |-> AddressOf(userAWallet),
                                  userB |-> AddressOf(userBWallet),
                                  dev |-> AddressOf(devWallet)])
          /\ UNCHANGED other
  /\ UNCHANGED <<resetTimers, delayedRefresh>>
  /\ UNCHANGED <<ledgerVars, walletVars, appVars, balanceVars>>

\* handleRefreshBalances up to the await of refreshBalances (lines 187-197).
ClickRefresh ==
  /\ UNCHANGED sideVars
  /\ UNCHANGED transactionInfo
  /\ ~isInitializing
  /\ IF ~WalletsReady
     THEN /\ status' = "Wallet addresses are not ready yet. Please try again shortly."
          /\ UNCHANGED <<hasInsufficientUSDC, balanceVars>>
     ELSE /\ resetTimers + PendingHandlers < MaxTimers
          /\ StartRefresh("button", "Refreshing balances...")
  /\ UNCHANGED <<resetTimers, delayedRefresh, initPc, isInitialized>>
  /\ UNCHANGED <<ledgerVars, hookVars, walletVars>>

\* setTimeout(() => setStatus({ message: "", type: "info" }), ...) fires.
StatusResetFires ==
  /\ UNCHANGED sideVars
  /\ UNCHANGED transactionInfo
  /\ resetTimers > 0
  /\ resetTimers' = resetTimers - 1
  /\ status' = ""
  /\ UNCHANGED <<delayedRefresh, appVars, balanceVars>>
  /\ UNCHANGED <<ledgerVars, hookVars, walletVars>>

\* setTimeout(() => void refreshBalances(...), 2000) fires.
DelayedRefreshFires ==
  /\ UNCHANGED sideVars
  /\ UNCHANGED transactionInfo
  /\ delayedRefresh > 0
  /\ delayedRefresh' = delayedRefresh - 1
  /\ StartRefresh("timer", status)
  /\ UNCHANGED <<resetTimers, initPc, isInitialized>>
  /\ UNCHANGED <<ledgerVars, hookVars, walletVars>>

\* ------------------------------------------------- a second transferUSDC call

\* A second call of the same hook's transferUSDC that overlaps the first. Its
\* transaction, signatures and requests are locals of that call; what it shares with
\* the first call is the hook's transferState, which it sets at lines 58, 152 and 160.
OtherCallBegins ==
  /\ other = "idle"
  /\ pc \in {"getAccountInfo", "ataSign", "getBlockhash", "senderSign", "sponsorSign",
             "send", "confirm"}
  /\ other' = "running"
  /\ transferState' = [isTransferring |-> TRUE, error |-> NullValue, success |-> FALSE]
  /\ UNCHANGED <<pc, transaction, ataTransaction, userSignature, developerSignature,
                 requests, submitted, trace, thrown, result, attempts, caller, args>>
  /\ UNCHANGED <<ledgerVars, uiVars, codec, route, proxy, secondInit>>

OtherCallEnds ==
  /\ other = "running"
  /\ \/ /\ ledgerUsdc >= TransferAmountMilli
        /\ ledgerUsdc' = ledgerUsdc - TransferAmountMilli
        /\ other' = "done"
        /\ transferState' = [isTransferring |-> FALSE, error |-> NullValue,
                             success |-> TRUE]
     \/ \E e \in {LedgerError, UserCancelled} :
          /\ other' = "failed"
          /\ transferState' = [isTransferring |-> FALSE, error |-> ErrorMessage(e),
                               success |-> FALSE]
          /\ UNCHANGED ledgerUsdc
  /\ UNCHANGED <<pc, transaction, ataTransaction, userSignature, developerSignature,
                 requests, submitted, trace, thrown, result, attempts, caller, args>>
  /\ UNCHANGED <<ataExists, ledgerBlockhash, uiVars, codec, route, proxy, secondInit>>

\* ------------------------------------------------------------ the byte codec

MaxBytes == 2
MaxHexLength == 4

\* A string is the sequence of its characters.
HexDigits == <<"0", "1", "2", "3", "4", "5", "6", "7", "8", "9",
               "a", "b", "c", "d", "e", "f">>
UpperHexDigits == <<"A", "B", "C", "D", "E", "F">>

\* The value of a character as a digit in base 16, -1 when it is none.
DigitValue(c) ==
  IF \E i \in DOMAIN HexDigits : HexDigits[i] = c
  THEN (CHOOSE i \in DOMAIN HexDigits : HexDigits[i] = c) - 1
  ELSE IF \E i \in DOMAIN UpperHexDigits : UpperHexDigits[i] = c
  THEN (CHOOSE i \in DOMAIN UpperHexDigits : UpperHexDigits[i] = c) + 9
  ELSE -1

\* bytes[k] = parseInt(pair, 16): parseInt reads the digits up to the first character
\* that is none and answers NaN when there is no digit; a Uint8Array stores NaN as 0.
ParseInt16(pair) ==
  IF pair = <<>> \/ DigitValue(pair[1]) < 0 THEN 0
  ELSE IF Len(pair) = 1 \/ DigitValue(pair[2]) < 0 THEN DigitValue(pair[1])
  ELSE 16 * DigitValue(pair[1]) + DigitValue(pair[2])

\* hex.startsWith("0x") ? hex.slice(2) : hex
StripMarker(hex) ==
  IF Len(hex) >= 2 /\ hex[1] = "0" /\ hex[2] = "x" THEN SubSeq(hex, 3, Len(hex)) ELSE hex

\* hexToUint8Array: new Uint8Array(cleanHex.length / 2) truncates the length, and the
\* write of the loop's last round to an index past the end is dropped.
HexToUint8Array(hex) ==
  LET cleanHex == StripMarker(hex)
  IN  [k \in 1..(Len(cleanHex) \div 2) |-> ParseInt16(SubSeq(cleanHex, 2 * k - 1, 2 * k))]

\* The digits of a byte without padStart(2, "0").
ToHexUnpadded(bytes) ==
  LET Digits(b) == IF b < 16 THEN <<HexDigits[b + 1]>>
                   ELSE <<HexDigits[(b \div 16) + 1], HexDigits[(b % 16) + 1]>>
      Join[n \in 0..Len(bytes)] == IF n = 0 THEN <<>> ELSE Join[n - 1] \o Digits(bytes[n])
  IN  Join[Len(bytes)]

\* Array.from(bytes).map(b => b.toString(16).padStart(2, "0")).join("")
ToHex(bytes) ==
  [i \in 1..(2 * Len(bytes)) |->
     IF i % 2 = 1 THEN HexDigits[(bytes[(i + 1) \div 2] \div 16) + 1]
     ELSE HexDigits[(bytes[i \div 2] % 16) + 1]]

\* Lines 117-120: `0x${...}`
MessageHex(bytes) == <<"0", "x">> \o ToHex(bytes)

\* The bytes the codec is tried on: every single byte, and the sequences of up to
\* MaxBytes bytes over values around the one-digit/two-digit and sign boundaries.
ByteSamples == {0, 9, 10, 15, 16, 127, 128, 171, 255}
ByteSequences ==
  {<<b>> : b \in 0..255} \cup UNION {[1..n -> ByteSamples] : n \in 0..MaxBytes}

\* The strings the decoder is tried on: digits of both cases, the marker's x, and g.
HexAlphabet == {"0", "1", "a", "F", "g", "x"}
HexStrings == UNION {[1..n -> HexAlphabet] : n \in 0..MaxHexLength}

NoCodec == [pc |-> "idle", bytes |-> <<>>, marker |-> FALSE, hex |-> <<>>,
            threw |-> FALSE, result |-> <<>>]

\* Lines 117-120 (with the marker) and the same digits without it.
EncodeBytes ==
  /\ codec.pc = "bytes"
  /\ codec' = [codec EXCEPT !.pc = "encoded",
                            !.hex = IF codec.marker THEN MessageHex(codec.bytes)
                                    ELSE ToHex(codec.bytes)]
  /\ UNCHANGED <<ledgerVars, hookVars, uiVars, other, route, proxy,
                 secondInit>>

\* Lines 29-36: hexToUint8Array has no throw; it returns bytes for every string.
DecodeHex ==
  /\ codec.pc \in {"encoded", "string"}
  /\ codec' = [codec EXCEPT !.pc = IF codec.pc = "encoded" THEN "roundTrip" ELSE "decoded",
                            !.threw = FALSE,
                            !.result = HexToUint8Array(codec.hex)]
  /\ UNCHANGED <<ledgerVars, hookVars, uiVars, other, route, proxy,
                 secondInit>>

\* ------------------------------- /api/usdc-balance and /api/solana-balance

MaxAccounts == 2

\* Token account balances in thousandths of a USDC; even, so that no sum of them lies
\* at a tie of toFixed(2), where the rounding of the floating-point sum decides.
AccountAmounts == {0, 4, 6, 10}
AccountLists == UNION {[1..n -> AccountAmounts] : n \in 0..MaxAccounts}

\* Wallet balances in millionths of a SOL, none at a tie of toFixed(5).
SolAmounts == {0, 4, 6, 2000000}

\* What the RPC node makes of the request: the fetch rejects, the response is not ok,
\* the body carries an error, the body carries no result, or it carries the result.
RpcFailures ==
  {[kind |-> k, accounts |-> <<>>, value |-> 0] :
     k \in {"rejects", "notOk", "rpcError", "noResult"}}
UsdcRpcAnswers ==
  RpcFailures \cup {[kind |-> "result", accounts |-> l, value |-> 0] : l \in AccountLists}
SolRpcAnswers ==
  RpcFailures \cup {[kind |-> "result", accounts |-> <<>>, value |-> v] : v \in SolAmounts}

\* totalBalance += ...uiAmount || 0, over the accounts
SumOf(amounts) ==
  LET Partial[n \in 0..Len(amounts)] ==
        IF n = 0 THEN 0 ELSE Partial[n - 1] + amounts[n]
  IN  Partial[Len(amounts)]

\* (lamports / 1_000_000_000).toFixed(5) for a balance in millionths: the 1e-5 shown.
ToFixed5(micro) == (micro + 5) \div 10

\* The 400 answers (no RPC request made), the 500 answer of the catch, the 200 answer.
ClientError == [http |-> 400, status |-> "ERROR", balance |-> -1, rpcCalled |-> FALSE]
ServerError == [http |-> 500, status |-> "ERROR", balance |-> -1, rpcCalled |-> TRUE]
Success(balance) ==
  [http |-> 200, status |-> "SUCCESS", balance |-> balance, rpcCalled |-> TRUE]

\* if (!address): the empty string
AddressMissing(a) == a.length = 0 /\ ~a.padded

\* POST /api/usdc-balance
UsdcBalanceRoute(address, rpc) ==
  IF AddressMissing(address) THEN ClientError
  ELSE IF ~ShapeCheck(address) THEN ClientError
  ELSE IF rpc.kind \in {"rejects", "notOk", "rpcError"} THEN ServerError
  ELSE Success(ToFixed2(SumOf(rpc.accounts)))

\* POST /api/solana-balance: data.result.value throws for a body without result.
SolanaBalanceRoute(address, rpc) ==
  IF AddressMissing(address) THEN ClientError
  ELSE IF ~ShapeCheck(address) THEN ClientError
  ELSE IF rpc.kind \in {"rejects", "notOk", "rpcError", "noResult"} THEN ServerError
  ELSE Success(ToFixed5(rpc.value))

NoResponse == [http |-> 0, status |-> "", balance |-> -1, rpcCalled |-> FALSE]
NoRoute == [pc |-> "idle", endpoint |-> "", address |-> WellFormedAddress,
            rpc |-> [kind |-> "rejects", accounts |-> <<>>, value |-> 0],
            response |-> NoResponse]

\* The requests the routes are tried on.
RouteRequests ==
  {[pc |-> "request", endpoint |-> "usdc", address |-> a, rpc |-> r,
    response |-> NoResponse] : a \in AddressSamples, r \in UsdcRpcAnswers}
  \cup {[pc |-> "request", endpoint |-> "sol", address |-> a, rpc |-> r,
         response |-> NoResponse] : a \in AddressSamples, r \in SolRpcAnswers}

UsdcBalancePost ==
  /\ route.pc = "request" /\ route.endpoint = "usdc"
  /\ route' = [route EXCEPT !.pc = "answered",
                            !.response = UsdcBalanceRoute(route.address, route.rpc)]
  /\ UNCHANGED <<ledgerVars, hookVars, uiVars, other, codec, proxy,
                 secondInit>>

SolanaBalancePost ==
  /\ route.pc = "request" /\ route.endpoint = "sol"
  /\ route' = [route EXCEPT !.pc = "answered",
                            !.response = SolanaBalanceRoute(route.address, route.rpc)]
  /\ UNCHANGED <<ledgerVars, hookVars, uiVars, other, codec, proxy,
                 secondInit>>

\* ------------------------- /api/developer-wallet and /api/metakeep-sign

\* process.env.METAKEEP_API_KEY: unset (or empty), or one of two keys.
KeyUnset == ""
ApiKeys == {KeyUnset, "key-one", "key-two"}

\* assertEnv (lines 16-27 of env.ts): the message names the variable.
MissingKeyMessage == "Missing required environment variable: METAKEEP_API_KEY."

\* The browser's request body: text that is not JSON, or a signing payload.
NotJson == "not json"
SignRequestBodies == {NotJson, "payload-one", "payload-two"}
DeveloperWalletBody == "id: master"

\* What the fetch to MetaKeep settles with: a rejection, a response that is not ok with
\* its status and text, a response whose body is not JSON, or JSON data.
UpstreamOutcomes ==
  {[kind |-> "rejects", status |-> "", text |-> ""],
   [kind |-> "notJson", status |-> "200", text |-> "<html>"]}
    \cup {[kind |-> "notOk", status |-> st, text |-> t] :
            st \in {"401", "500"}, t \in {"", "invalid api key"}}
    \cup {[kind |-> "ok", status |-> "200", text |-> d] : d \in {"data-one", "data-two"}}

\* The request a route sends to MetaKeep: the key is the x-api-key header.
NoUpstreamRequest == [sent |-> FALSE, url |-> "", apiKeyHeader |-> "", body |-> ""]
UpstreamRequest(url, apiKey, body) ==
  [sent |-> TRUE, url |-> url, apiKeyHeader |-> apiKey, body |-> body]

\* NextResponse.json(data) and the catch's NextResponse.json({error, details}, 500).
ProxyData(data) == [http |-> 200, error |-> "", details |-> <<>>, data |-> data]
ProxyFailure(error, details) ==
  [http |-> 500, error |-> error, details |-> details, data |-> ""]


\* A signing route whose failure message carries the key it used.
MetakeepSignRouteEchoingKey(apiKey, body, upstream) ==
  IF apiKey = KeyUnset
  THEN [upstreamRequest |-> NoUpstreamRequest,
        response |-> ProxyFailure("Failed to sign transaction with MetaKeep",
                                  <<MissingKeyMessage>>)]
  ELSE IF body = NotJson
  THEN [upstreamRequest |-> NoUpstreamRequest,
        response |-> ProxyFailure("Failed to sign transaction with MetaKeep",
                                  <<"Unexpected token">>)]
  ELSE [upstreamRequest |-> UpstreamRequest("v2/app/sign/transaction", apiKey, body),
        response |->
          CASE upstream.kind = "rejects" ->
                 ProxyFailure("Failed to sign transaction with MetaKeep",
                              <<"fetch failed">>)
            [] upstream.kind = "notOk" ->
                 ProxyFailure("Failed to sign transaction with MetaKeep",
                              <<"MetaKeep signing error", upstream.status,
                                upstream.text, apiKey>>)
            [] upstream.kind = "notJson" ->
                 ProxyFailure("Failed to sign transaction with MetaKeep",
                              <<"Unexpected token">>)
            [] OTHER -> ProxyData(upstream.text)]

\* POST /api/metakeep-sign (route.ts lines 7-37): what is sent upstream and what is
\* answered to the browser.
MetakeepSignRoute(apiKey, body, upstream) ==
  IF apiKey = KeyUnset
  THEN [upstreamRequest |-> NoUpstreamRequest,
        response |-> ProxyFailure("Failed to sign transaction with MetaKeep",
                                  <<MissingKeyMessage>>)]
  ELSE IF body = NotJson
  THEN [upstreamRequest |-> NoUpstreamRequest,
        response |-> ProxyFailure("Failed to sign transaction with MetaKeep",
                                  <<"Unexpected token">>)]
  ELSE [upstreamRequest |-> UpstreamRequest("v2/app/sign/transaction", apiKey, body),
        response |->
          CASE upstream.kind = "rejects" ->
                 ProxyFailure("Failed to sign transaction with MetaKeep",
                              <<"fetch failed">>)
            [] upstream.kind = "notOk" ->
                 ProxyFailure("Failed to sign transaction with MetaKeep",
                              <<"MetaKeep signing error", upstream.status,
                                upstream.text>>)
            [] upstream.kind = "notJson" ->
                 ProxyFailure("Failed to sign transaction with MetaKeep",
                              <<"Unexpected token">>)
            [] OTHER -> ProxyData(upstream.text)]

\* POST /api/developer-wallet: the request body is not read.
DeveloperWalletRoute(apiKey, body, upstream) ==
  IF apiKey = KeyUnset
  THEN [upstreamRequest |-> NoUpstreamRequest,
        response |-> ProxyFailure("Failed to fetch developer wallet",
                                  <<MissingKeyMessage>>)]
  ELSE [upstreamRequest |->
          UpstreamRequest("v3/getDeveloperWallet", apiKey, DeveloperWalletBody),
        response |->
          CASE upstream.kind = "rejects" ->
                 ProxyFailure("Failed to fetch developer wallet", <<"fetch failed">>)
            [] upstream.kind = "notOk" ->
                 ProxyFailure("Failed to fetch developer wallet",
                              <<"MetaKeep developer wallet lookup failed with",
                                upstream.status>>)
            [] upstream.kind = "notJson" ->
                 ProxyFailure("Failed to fetch developer wallet", <<"Unexpected token">>)
            [] OTHER -> ProxyData(upstream.text)]

NoProxy == [pc |-> "idle", endpoint |-> "", apiKey |-> KeyUnset, body |-> NotJson,
            upstream |-> [kind |-> "rejects", status |-> "", text |-> ""],
            upstreamRequest |-> NoUpstreamRequest,
            response |-> [http |-> 0, error |-> "", details |-> <<>>, data |-> ""]]

\* The requests the proxy routes are tried on.
ProxyRequests ==
  {[NoProxy EXCEPT !.pc = "request", !.endpoint = e, !.apiKey = k, !.body = b,
                   !.upstream = u] :
      e \in {"developer-wallet", "metakeep-sign"}, k \in ApiKeys,
      b \in SignRequestBodies, u \in UpstreamOutcomes}

MetakeepSignPost ==
  /\ proxy.pc = "request" /\ proxy.endpoint = "metakeep-sign"
  /\ LET answer == MetakeepSignRoute(proxy.apiKey, proxy.body, proxy.upstream)
     IN  proxy' = [proxy EXCEPT !.pc = "answered",
                                !.upstreamRequest = answer.upstreamRequest,
                                !.response = answer.response]
  /\ UNCHANGED <<ledgerVars, hookVars, uiVars, other, codec, route,
                 secondInit>>

DeveloperWalletPost ==
  /\ proxy.pc = "request" /\ proxy.endpoint = "developer-wallet"
  /\ LET answer == DeveloperWalletRoute(proxy.apiKey, proxy.body, proxy.upstream)
     IN  proxy' = [proxy EXCEPT !.pc = "answered",
                                !.upstreamRequest = answer.upstreamRequest,
                                !.response = answer.response]
  /\ UNCHANGED <<ledgerVars, hookVars, uiVars, other, codec, route,
                 secondInit>>

\* ----------------------------------------------------------- specifications

NoBalance == [kind |-> "null", cents |-> 0]

\* The state after useTransfer, useMetaKeepSDK, useSolanaConnection, useWalletBalances
\* and MetaKeepApp ran their useState calls, and the ledger as it then is.
ProgramInit ==
  /\ ledgerUsdc \in InitialLedgerUsdc
  /\ ataExists \in BOOLEAN
  /\ ledgerBlockhash = 1
  /\ transferState = [isTransferring |-> FALSE, error |-> NullValue, success |-> FALSE]
  /\ pc = "idle"
  /\ transaction = NewTransaction
  /\ ataTransaction = NewTransaction
  /\ userSignature = NoReply
  /\ developerSignature = NoSponsorBody
  /\ requests = NoRequests
  /\ submitted = NewTransaction
  /\ trace = <<>>
  /\ thrown = NoError
  /\ result = NoResult
  /\ attempts = 0
  /\ caller = "none"
  /\ args = [p \in Participants |-> WellFormedAddress]
  /\ connection = FALSE
  /\ sdk = FALSE
  /\ userAWallet = ""
  /\ userBWallet = ""
  /\ devWallet = ""
  /\ isInitializing = FALSE
  /\ walletReply = NoWalletReply
  /\ initPc = "unmounted"
  /\ isInitialized = FALSE
  /\ hasInsufficientUSDC = FALSE
  /\ status = ""
  /\ resetTimers = 0
  /\ delayedRefresh = 0
  /\ transactionInfo = NoTransactionInfo
  /\ balances = [p \in Participants |-> NoBalance]
  /\ refreshes = {}
  /\ refreshCount = 0

Init ==
  /\ ProgramInit
  /\ other = "idle"
  /\ codec = NoCodec
  /\ route = NoRoute
  /\ proxy = NoProxy
  /\ secondInit = NoSecondInit

\* The hook on its own: transferUSDC called directly, the ledger moving on.
NextTransfer == DirectCall \/ TransferStep \/ LedgerTick

SpecTransfer == Init /\ [][NextTransfer]_vars

\* The same calls when every request to the ledger is eventually answered. Nothing makes
\* a signer answer: transferUSDC awaits sdk.signTransaction and the two fetches of
\* /api/metakeep-sign without a timer or an abort signal.
SpecLedgerAnswers ==
  /\ Init
  /\ [][NextTransfer]_vars
  /\ WF_vars(AccountInfoResolves)
  /\ WF_vars(BlockhashResolves)
  /\ WF_vars(SendResolves)
  /\ WF_vars(ConfirmResolves)

\* Two overlapping calls of the same hook's transferUSDC.
NextConcurrent == NextTransfer \/ OtherCallBegins \/ OtherCallEnds

SpecConcurrent == Init /\ [][NextConcurrent]_vars

\* The byte codec on its own, run on every input of ByteSequences and HexStrings.
CodecInputs ==
  {[NoCodec EXCEPT !.pc = "bytes", !.bytes = b, !.marker = m] :
     b \in ByteSequences, m \in BOOLEAN}
  \cup {[NoCodec EXCEPT !.pc = "string", !.hex = h] : h \in HexStrings}

InitCodec ==
  /\ ProgramInit
  /\ other = "idle"
  /\ codec \in CodecInputs
  /\ route = NoRoute
  /\ proxy = NoProxy
  /\ secondInit = NoSecondInit

NextCodec == EncodeBytes \/ DecodeHex

SpecCodec == InitCodec /\ [][NextCodec]_vars

\* The balance routes on their own, run on every request of RouteRequests.
InitRoutes ==
  /\ ProgramInit
  /\ other = "idle"
  /\ codec = NoCodec
  /\ route \in RouteRequests
  /\ proxy = NoProxy
  /\ secondInit = NoSecondInit

NextRoutes == UsdcBalancePost \/ SolanaBalancePost

SpecRoutes == InitRoutes /\ [][NextRoutes]_vars

\* The addresses: a balance request for each address, and transferUSDC called with
\* each address.
InitAddresses ==
  /\ ProgramInit
  /\ other = "idle"
  /\ codec = NoCodec
  /\ route \in {NoRoute} \cup {r \in RouteRequests : r.rpc.kind = "noResult"}
  /\ proxy = NoProxy
  /\ secondInit = NoSecondInit

NextAddresses == NextRoutes \/ NextTransfer

SpecAddresses == InitAddresses /\ [][NextAddresses]_vars

\* The two MetaKeep proxy routes, each tried on every request.
InitProxy ==
  /\ ProgramInit
  /\ other = "idle"
  /\ codec = NoCodec
  /\ route = NoRoute
  /\ proxy \in ProxyRequests
  /\ secondInit = NoSecondInit

NextProxy == MetakeepSignPost \/ DeveloperWalletPost

SpecProxy == InitProxy /\ [][NextProxy]_vars

\* The initialization with a second initializeWallets call overlapping the first.
NextInit ==
  \/ Mount
  \/ ConnectionResolves
  \/ DevWalletResolves
  \/ GetWalletResolves
  \/ SecondInitBegins
  \/ SecondDevWalletResolves
  \/ SecondGetWalletResolves
  \/ RefreshCompletes

SpecInit == Init /\ [][NextInit]_vars

\* The page: MetaKeepApp with its hooks, the user's clicks, the timers, the ledger.
Next ==
  \/ Mount
  \/ ConnectionResolves
  \/ DevWalletResolves
  \/ GetWalletResolves
  \/ ClickTransfer
  \/ ClickRefresh
  \/ RefreshCompletes
  \/ StatusResetFires
  \/ DelayedRefreshFires
  \/ TransferStep
  \/ LedgerTick

Spec == Init /\ [][Next]_vars

\* ------------------------------------------------------------------ claims

Range(q) == {q[i] : i \in DOMAIN q}

\* The stages of one attempt, in the order of the source.
Stages == <<"build", "senderSign", "sponsorSign", "merge", "submit", "confirm">>
IsStage(e) == e \in Range(Stages)
StageTrace == SelectSeq(trace, IsStage)
StagePrefix(n) == SubSeq(Stages, 1, n)

\* C1: within one call of transferUSDC the stages build, sender signature, sponsor
\* signature, merge, submit, confirm are executed in that order, none skipped and
\* none twice; a call that is not failed is exactly as far along as its await says.
C1_SinglePass ==
  /\ pc \in {"idle", "getAccountInfo", "ataSign", "getBlockhash", "senderSign",
             "sponsorSign", "send", "confirm", "done", "failed"}
  /\ \E n \in 0..Len(Stages) : StageTrace = StagePrefix(n)
  /\ pc \in {"idle", "getAccountInfo", "ataSign"} => StageTrace = <<>>
  /\ pc = "getBlockhash" => StageTrace = StagePrefix(1)
  /\ pc = "senderSign" => StageTrace = StagePrefix(2)
  /\ pc = "sponsorSign" => StageTrace = StagePrefix(3)
  /\ pc = "send" => StageTrace = StagePrefix(5)
  /\ pc \in {"confirm", "done"} => StageTrace = Stages

C1_Witness == pc = "done" /\ StageTrace = Stages

\* Does the slot of signer s carry the signature that s's own signer returned, made
\* over this transaction's message.
SlotBound(t, s, reply) ==
  /\ reply.present
  /\ t.signatures[s] = reply.signature
  /\ reply.signature.by = s
  /\ reply.signature.message = SerializeMessage(t)

\* C2: a transaction is handed to sendRawTransaction only when the sender's slot and
\* the sponsor's slot each carry the signature returned by that party's own signer,
\* and no other slot is signed; a merged transaction that is not so signed ends the
\* call failed without a submission.
C2_SubmitOnlyFullySigned ==
  /\ "submit" \in Range(trace) =>
       /\ RequiredSigners(submitted) = {"userA", "dev"}
       /\ SignedSlots(submitted) = {"userA", "dev"}
       /\ SlotBound(submitted, "userA", userSignature)
       /\ SlotBound(submitted, "dev", developerSignature.reply)
  /\ ("merge" \in Range(trace) /\ "submit" \notin Range(trace)) =>
       /\ pc = "failed"
       /\ submitted = NewTransaction
       /\ ~(SlotBound(transaction, "userA", userSignature)
            /\ SlotBound(transaction, "dev", developerSignature.reply))

C2_Witness == pc = "send" /\ "submit" \in Range(trace)

\* C3: when the sponsor signing step fails (the response is not ok, its status is not
\* SUCCESS or it carries no signature) the call ends failed and nothing was submitted.
C3_SponsorFailureNoSubmit ==
  LET answered == developerSignature # NoSponsorBody
      refused == answered /\ ~(developerSignature.status = "SUCCESS"
                               /\ developerSignature.hasSignature)
      failedAtSponsor == "sponsorSignFailed" \in Range(trace)
  IN  (refused \/ failedAtSponsor) =>
        /\ pc = "failed"
        /\ "submit" \notin Range(trace)
        /\ submitted = NewTransaction
        /\ ~transferState.success /\ ~transferState.isTransferring

C3_Witness ==
  /\ pc = "failed"
  /\ developerSignature.status = "FAILED"
  /\ developerSignature.hasSignature

\* C5 (as claimed): construction of the transfer transaction begins only once the
\* recipient's token account exists, i.e. after the setup transaction was submitted
\* to the ledger and confirmed.
C5_BuildOnlyAfterSetupConfirmed == "build" \in Range(trace) => ataExists

\* C6 (as claimed): once the ledger answered the account lookup, a present account
\* means no setup transaction and no setup signing request; an absent one means one
\* unsigned setup transaction with the single create-account instruction, whose fee
\* payer is the sponsor and whose only required signer is the sponsor.
C6_SetupTransactionShape ==
  (Len(trace) >= 2 /\ trace[2] # "ledgerUnavailable") =>
    IF ataExists
    THEN ataTransaction = NewTransaction /\ requests.setup = NoPayload
    ELSE /\ Len(ataTransaction.instructions) = 1
         /\ ataTransaction.instructions[1].op = "createATA"
         /\ SignedSlots(ataTransaction) = {}
         /\ ataTransaction.feePayer = "dev"
         /\ RequiredSigners(ataTransaction) = {"dev"}

\* C7: when the ledger query for the recipient's token account fails, the call ends
\* failed with an error, no signer was asked for anything, no setup transaction and no
\* transfer transaction exist, and the hook is not left transferring.
C7_LedgerFailureAborts ==
  "ledgerUnavailable" \in Range(trace) =>
    /\ pc = "failed"
    /\ requests = NoRequests
    /\ ataTransaction = NewTransaction
    /\ transaction = NewTransaction
    /\ submitted = NewTransaction
    /\ transferState = [isTransferring |-> FALSE, error |-> ErrorMessage(LedgerError),
                        success |-> FALSE]

C7_Witness == "ledgerUnavailable" \in Range(trace) /\ ~ataExists

\* C8: every payload sent to a signer is unsigned: the sender's signer gets the
\* transaction with no signature on it, the sponsor's signer gets the message bytes
\* only, and the setup request carries no signature either.
C8_PayloadsUnsigned ==
  /\ requests.sender.signed = {}
  /\ requests.sponsor.signed = {}
  /\ requests.setup.signed = {}
  /\ requests.sponsor # NoPayload => requests.sponsor.kind = "message"

C8_Witness ==
  /\ requests.sponsor.kind = "message"
  /\ SignedSlots(transaction) = {"userA"}

\* C9: the message the sponsor is asked to sign is the message the sender signed:
\* instructions, fee payer and blockhash are set before the sender's signer is called
\* and are the same in the sponsor's request and in the transaction afterwards.
C9_SameMessage ==
  /\ requests.sender # NoPayload =>
       /\ requests.sender.message.instructions # <<>>
       /\ requests.sender.message.feePayer = "dev"
       /\ requests.sender.message.recentBlockhash # 0
       /\ SerializeMessage(transaction) = requests.sender.message
  /\ requests.sponsor # NoPayload =>
       /\ requests.sponsor.message = requests.sender.message
       /\ userSignature.signature.message = requests.sponsor.message

C9_Witness ==
  /\ requests.sponsor # NoPayload
  /\ ledgerBlockhash # requests.sender.message.recentBlockhash

\* C10 (as claimed): a cancellation by the user ends the call in an outcome that
\* differs from the outcome of every transient signer failure.
C10_CancellationDistinct ==
  (pc = "failed" /\ thrown = UserCancelled) =>
    \A e \in TransientRejections : transferState.error # ErrorMessage(e)

\* C4 (as claimed): whenever the sender's balance on the ledger is below the transfer
\* amount, a transfer triggered from the page contacts no signer: no payload has gone
\* to the sender's signer or to the sponsor's signer.
C4_InsufficientContactsNoSigner ==
  (caller = "ui" /\ pc # "done" /\ ledgerUsdc < TransferAmountMilli) =>
    requests = NoRequests


\* Number of times the call made the request e.
Occurrences(e) == Cardinality({i \in 1..Len(trace) : trace[i] = e})

LedgerRejections == {"submitRejected", "confirmRejected"}

\* C11: a rejection by the ledger (the submission fails, or the confirmation fails or
\* reports an error) ends the call: the transaction is submitted at most once per call,
\* and the rejection is the last thing the call did - no signer is asked and nothing is
\* submitted after it.
C11_LedgerRejectionTerminal ==
  /\ Occurrences("submit") <= 1
  /\ Occurrences("senderSign") <= 1
  /\ Occurrences("sponsorSign") <= 1
  /\ (Range(trace) \cap LedgerRejections # {}) =>
        /\ pc = "failed"
        /\ trace[Len(trace)] \in LedgerRejections
        /\ ~transferState.isTransferring

C11_Witness == pc = "failed" /\ trace # <<>> /\ trace[Len(trace)] = "submitRejected"


\* What the services report when a step of the call fails: the ledger cannot be queried,
\* the setup signing request fails, no blockhash is served, a signer refuses or returns
\* nothing, the submission or the confirmation is rejected.
StepFailures ==
  {"ledgerUnavailable", "setupSignFailed", "blockhashFailed", "senderSignFailed",
   "sponsorSignFailed", "submitRejected", "confirmRejected"}

C13_EveryAttemptEnds ==
  transferState.isTransferring ~> ~transferState.isTransferring


\* The awaits of transferUSDC.
InFlight ==
  {"getAccountInfo", "ataSign", "getBlockhash", "senderSign", "sponsorSign", "send",
   "confirm"}

\* C14 (as claimed): what the hook reports about a call follows from that call's own
\* steps, whatever an overlapping call does: transferring while the call is at an
\* await, its own error once it failed, success once it completed.
C14_OutcomeIsOwn ==
  /\ pc \in InFlight =>
       transferState = [isTransferring |-> TRUE, error |-> NullValue, success |-> FALSE]
  /\ pc = "failed" =>
       transferState = [isTransferring |-> FALSE, error |-> ErrorMessage(thrown),
                        success |-> FALSE]
  /\ pc = "done" =>
       transferState = [isTransferring |-> FALSE, error |-> NullValue, success |-> TRUE]

\* C15: success is reported only by a call whose submitted transaction the ledger
\* confirmed without an error, and the value it resolves with (and the page then
\* displays) carries the transaction's identifier, the sender's signature and the
\* sponsor's signature, each being the one in that party's own slot of the
\* submitted transaction.
C15_SuccessOnlyAfterConfirmation ==
  /\ (transferState.success \/ result.success \/ pc = "done") =>
       /\ pc = "done"
       /\ transferState.success /\ result.success
       /\ trace # <<>> /\ trace[Len(trace)] = "confirmed"
       /\ Occurrences("submit") = 1
       /\ Range(trace) \cap StepFailures = {}
       /\ result.signature = TransactionId(submitted)
       /\ result.signature # NoSignature
       /\ SlotBound(submitted, "userA", result.userSignature)
       /\ SlotBound(submitted, "dev", result.developerSignature.reply)
       /\ SignedSlots(submitted) = {"userA", "dev"}
       /\ caller = "ui" =>
            transactionInfo = [signature |-> result.signature,
                               userSignature |-> result.userSignature,
                               developerSignature |-> result.developerSignature]
  /\ transactionInfo # NoTransactionInfo =>
       /\ transactionInfo.userSignature.signature.by = "userA"
       /\ transactionInfo.developerSignature.reply.signature.by = "dev"
       /\ transactionInfo.signature = transactionInfo.developerSignature.reply.signature

C15_Witness ==
  /\ pc = "done"
  /\ caller = "ui"
  /\ transactionInfo.signature = TransactionId(submitted)
  /\ transactionInfo # NoTransactionInfo

\* C16 (as claimed): the setup transaction and the transfer transaction both name the
\* sponsor as fee payer, the setup instruction names the sponsor as payer of the rent,
\* and neither the sender nor the recipient is the fee payer of either.
C16_SponsorPaysEverything ==
  /\ "buildSetup" \in Range(trace) =>
       /\ ataTransaction.feePayer = "dev"
       /\ \A i \in DOMAIN ataTransaction.instructions :
            ataTransaction.instructions[i].payer = "dev"
  /\ "senderSign" \in Range(trace) => transaction.feePayer = "dev"
  /\ {ataTransaction.feePayer, transaction.feePayer} \cap {"userA", "userB"} = {}


\* C17: decoding the hex string the flow makes of a byte sequence (two lowercase digits
\* per byte, after the 0x marker) gives back exactly that byte sequence, and so does
\* decoding the same digits without the marker.
C17_CodecRoundTrip ==
  codec.pc = "roundTrip" =>
     /\ codec.result = codec.bytes
     /\ ~codec.threw
     /\ Len(codec.hex) = 2 * Len(codec.bytes) + (IF codec.marker THEN 2 ELSE 0)
     /\ \A i \in DOMAIN StripMarker(codec.hex) :
          \E d \in DOMAIN HexDigits : StripMarker(codec.hex)[i] = HexDigits[d]

C17_Witness ==
  /\ codec.pc = "roundTrip"
  /\ codec.marker
  /\ codec.bytes = <<9, 171>>
  /\ codec.hex = <<"0", "x", "0", "9", "a", "b">>

\* A string that is not the hex of any byte sequence: after the optional marker its
\* length is odd or one of its characters is no hexadecimal digit.
Malformed(hex) ==
  LET cleanHex == StripMarker(hex)
  IN  \/ Len(cleanHex) % 2 = 1
      \/ \E i \in DOMAIN cleanHex : DigitValue(cleanHex[i]) < 0

\* C18 (as claimed): decoding a malformed string fails and returns no bytes.
C18_MalformedRejected ==
  (codec.pc = "decoded" /\ Malformed(codec.hex)) => codec.threw

\* The shape of an address: Base-58 characters only, 32 to 44 of them.
WellShaped(a) == a.base58 /\ a.length \in MinAddressLength..MaxAddressLength

C20_ExactSum ==
  (route.pc = "answered" /\ route.endpoint = "usdc" /\ WellShaped(route.address)
     /\ route.rpc.kind = "result") =>
     /\ route.response.status = "SUCCESS"
     /\ route.response.balance * 10 = SumOf(route.rpc.accounts)


\* C21 (as claimed): a balance lookup that failed - the RPC fetch rejects, the response
\* is not ok, the body carries an RPC error or carries no result - is never answered
\* with status SUCCESS.
C21_FailedLookupIsError ==
  (route.pc = "answered" /\ route.response.rpcCalled /\ route.rpc.kind # "result") =>
     /\ route.response.status = "ERROR"
     /\ route.response.balance = -1


\* C22 (as claimed): once the balance lookups of a refresh have been issued, no transfer
\* attempt starts from the transfer control until that refresh has joined: a step that
\* starts an attempt is taken with no refresh outstanding.
C22_GateAfterJoin ==
  [][(attempts' = attempts + 1 /\ caller' = "ui") => refreshes = {}]_vars


\* C23: when getWallet rejects with status OPERATION_CANCELLED, wallet initialization
\* completes without error: the initializing flag is false again, the sender address is
\* unset and the page counts as initialized. Any other getWallet rejection fails the
\* initialization.
C23_CancellationNonFatal ==
  walletReply.kind = "rejected" =>
     /\ ~isInitializing
     /\ userAWallet = ""
     /\ IF walletReply.error = UserCancelled
        THEN initPc = "done" /\ isInitialized
        ELSE initPc = "failed" /\ ~isInitialized

C23_Witness ==
  /\ walletReply = [kind |-> "rejected", error |-> UserCancelled]
  /\ initPc = "done" /\ isInitialized /\ ~isInitializing /\ userAWallet = ""


\* What a proxy route answers.
ProxyAnswerTo(endpoint, apiKey, body, upstream) ==
  IF endpoint = "metakeep-sign"
  THEN MetakeepSignRoute(apiKey, body, upstream)
  ELSE DeveloperWalletRoute(apiKey, body, upstream)

\* C24: the API key never reaches the browser. For every request and every upstream
\* outcome, the response of /api/developer-wallet and of /api/metakeep-sign is the one
\* the route gives with any other key, no field of the response is the key, and the key
\* goes upstream as the x-api-key header only, next to a body that does not hold it.
C24_KeyNotInResponse ==
  (proxy.pc = "answered" /\ proxy.apiKey # KeyUnset) =>
     /\ \A k \in ApiKeys \ {KeyUnset} :
          ProxyAnswerTo(proxy.endpoint, k, proxy.body, proxy.upstream).response
            = proxy.response
     /\ proxy.response.error # proxy.apiKey
     /\ proxy.response.data # proxy.apiKey
     /\ proxy.apiKey \notin Range(proxy.response.details)
     /\ proxy.upstreamRequest.sent =>
          /\ proxy.upstreamRequest.apiKeyHeader = proxy.apiKey
          /\ proxy.upstreamRequest.body =
               IF proxy.endpoint = "metakeep-sign" THEN proxy.body
               ELSE DeveloperWalletBody

C24_Witness ==
  /\ proxy.pc = "answered" /\ proxy.endpoint = "metakeep-sign"
  /\ proxy.apiKey = "key-one"
  /\ proxy.upstream.kind = "notOk" /\ proxy.upstream.text = "invalid api key"
  /\ proxy.upstreamRequest.apiKeyHeader = "key-one"
  /\ proxy.response.http = 500


\* C25: in every reachable state of useTransfer's transferState, success and a non-null
\* error are never both set, and while isTransferring is true the error is null and
\* success is false.
C25_TransferStateConsistent ==
  /\ ~(transferState.success /\ transferState.error # NullValue)
  /\ transferState.isTransferring =>
       (transferState.error = NullValue /\ ~transferState.success)

C25_Witness ==
  /\ pc = "failed" /\ thrown # NoError
  /\ transferState.error # NullValue
  /\ ~transferState.success /\ ~transferState.isTransferring


\* C26: through the transfer control at most one attempt is in flight. While a call
\* started by the control is suspended the control starts no second call, and
\* isTransferring is true exactly while the call is suspended.
C26_OneAttemptInFlight ==
  /\ other = "idle"
  /\ transferState.isTransferring <=> (pc \in InFlight)
  /\ pc \in InFlight => caller = "ui"

C26_Witness ==
  /\ caller = "ui" /\ pc = "sponsorSign"
  /\ transferState.isTransferring
  /\ ~isInitializing /\ ~hasInsufficientUSDC
  /\ other = "idle"

MissingDetailsMessage ==
  "Missing wallet or connection details. Please initialize the experience again."

\* C27: a transfer attempt starts only when the connection, the SDK and the three
\* addresses are set. After a cancelled wallet discovery the sender address is unset, so
\* no attempt starts, no signer and no ledger is called, and the missing-details message
\* is shown only when a detail is missing.
C27_AttemptNeedsDetails ==
  /\ attempts > 0 => (connection /\ sdk /\ WalletsReady)
  /\ (walletReply.kind = "rejected" /\ initPc = "done") =>
        /\ attempts = 0 /\ pc = "idle" /\ trace = <<>>
        /\ requests = NoRequests /\ submitted = NewTransaction
        /\ ~transferState.isTransferring
  /\ status = MissingDetailsMessage =>
        ~(connection /\ sdk /\ userAWallet # "" /\ userBWallet # "" /\ devWallet # "")

C27_Witness ==
  /\ walletReply = [kind |-> "rejected", error |-> UserCancelled]
  /\ initPc = "done"
  /\ status = MissingDetailsMessage
  /\ attempts = 0 /\ trace = <<>> /\ requests = NoRequests


\* C28: when the sender's balance lookup failed, so that the sender's label is the error
\* marker, the insufficient-balance flag is set; a set flag is cleared only by a refresh
\* that stores for the sender a balance of at least the transfer amount; and no attempt
\* starts from the transfer control while the flag is set.
C28_FailedLookupBlocksTransfer ==
  /\ [](balances["userA"].kind = "error" => hasInsufficientUSDC)
  /\ [][(hasInsufficientUSDC /\ ~hasInsufficientUSDC') =>
          /\ balances'["userA"] # balances["userA"]
          /\ balances'["userA"].kind = "value"
          /\ balances'["userA"].cents * 10 >= TransferAmountMilli]_vars
  /\ [][attempts' = attempts + 1 => ~hasInsufficientUSDC]_vars

C28_Witness ==
  /\ balances["userA"].kind = "error"
  /\ hasInsufficientUSDC
  /\ ~isInitializing /\ ~transferState.isTransferring
  /\ ledgerUsdc >= TransferAmountMilli


\* C29 (as claimed): when refreshBalances calls overlap, the response of an earlier
\* refresh never overwrites the result of a later one: a refresh that settles after a
\* refresh started later than it has already settled leaves the stored balances alone.
C29_LatestRefreshWins ==
  [][\A r \in refreshes \ refreshes' :
        (\E id \in (r.id + 1)..refreshCount : \A q \in refreshes : q.id # id)
          => balances' = balances]_vars


\* The kinds of the three stored entries.
BalanceKinds == {balances[p].kind : p \in Participants}

\* C30: the stored balances change all or nothing. In every state the three entries are
\* all unset, all loading, all the error marker or all values; a step that stores values
\* stores the three values of one refresh that settles in that step; and a refresh of
\* which a lookup failed leaves the error marker in all three entries and, when the
\* refresh button awaited it, its failure in the status line.
C30_AllOrNothing ==
  /\ [](Cardinality(BalanceKinds) = 1)
  /\ [][(balances' # balances /\ balances'["userA"].kind = "value") =>
          \E r \in refreshes \ refreshes' : balances' = r.labels]_vars
  /\ [][\A r \in refreshes \ refreshes' :
          (\E p \in Participants : balances'[p] # r.labels[p]) =>
             /\ \A p \in Participants : balances'[p] = ErrorBalance
             /\ r.origin = "button" => status' = RefreshFailedBanner]_vars

C30_Witness ==
  /\ \A p \in Participants : balances[p] = ErrorBalance
  /\ status = RefreshFailedBanner
  /\ refreshes = {}


\* C31 (as claimed): the loading flag guards against double initialization. A second
\* initializeWallets call made while the first is in progress runs no initialization
\* step - it issues no developer-wallet request - and when no call is in progress the
\* flag is false.
C31_NoDoubleInitialization ==
  /\ secondInit.fetches = 0
  /\ (initPc \in {"done", "failed"} /\ secondInit.pc \in {"idle", "done", "failed"})
       => ~isInitializing


\* The messages a handler shows from its start until it ends. A handler schedules its
\* reset only when it ends, together with its last message: a reset timer that is
\* pending while one of these is shown was scheduled by an operation that started earlier.
MessagesInProgress == {"Starting USDC transfer...", "Refreshing balances..."}

\* C32 (as claimed): a delayed status reset scheduled by an earlier operation never
\* erases the message of an operation that started later: no reset timer fires on the
\* message of a handler that is still running.
C32_ResetErasesOwnMessage ==
  [][resetTimers' = resetTimers - 1 => status \notin MessagesInProgress]_vars

====
